---- MODULE Spec2Model ----
(***************************************************************************)
(* Model of run_cost_agent/__init__.py: an HTTP-triggered function that    *)
(* runs a four-node LangGraph chain (fetch_cost -> detect_anomaly ->       *)
(* optimize -> report), uploads the report to blob storage and returns it. *)
(*                                                                         *)
(* Python values are tagged records.  Text (str) is a sequence of          *)
(* "characters"; a character is a TLA+ string, either a real one-character *)
(* JSON symbol ("{", ",", the quote, a digit ...) or a whole word standing *)
(* for a run of letters ("help", "resource").  Numbers are kept in         *)
(* hundredths (2.35 is 235), which is exact for every number the program   *)
(* itself produces.                                                        *)
(***************************************************************************)
EXTENDS Integers, Sequences, FiniteSets, TLC

(***************************************************************************)
(* Bounds of the model.                                                    *)
(***************************************************************************)
NumRequests == 2
MaxTime == 1
MaxReplyLen == 3
MaxCostCents == 1000

(***************************************************************************)
(* Program constants.                                                      *)
(***************************************************************************)
\* "monthly_cost_usd": 2.35, in hundredths
StubMonthlyCostCents == 235
\* cost > 5, in hundredths
AnomalyThresholdCents == 500

(***************************************************************************)
(* Python values.                                                          *)
(***************************************************************************)
PyNone == [t |-> "None"]
PyBool(b) == [t |-> "bool", b |-> b]
PyNum(c) == [t |-> "number", cents |-> c]
PyStr(cs) == [t |-> "str", chars |-> cs]
PyList(xs) == [t |-> "list", elems |-> xs]
PyDict(ps) == [t |-> "dict", pairs |-> ps]

\* A dict is its (key, value) pairs in insertion order; keys are texts.
Key(word) == <<word>>
EmptyDict == PyDict(<<>>)
Keys(d) == {d.pairs[i].k : i \in 1..Len(d.pairs)}
HasKey(d, k) == k \in Keys(d)
IndexOf(d, k) == CHOOSE i \in 1..Len(d.pairs) : d.pairs[i].k = k
\* d[k]; the callers guard the KeyError case with HasKey
GetItem(d, k) == d.pairs[IndexOf(d, k)].v
\* d.get(k, default)
Get(d, k, default) == IF HasKey(d, k) THEN GetItem(d, k) ELSE default
\* d[k] = v: a new key goes last, an existing one keeps its place
SetItem(d, k, v) ==
    IF HasKey(d, k)
    THEN PyDict([d.pairs EXCEPT ![IndexOf(d, k)] = [k |-> k, v |-> v]])
    ELSE PyDict(Append(d.pairs, [k |-> k, v |-> v]))
\* a dict literal {k1: v1, k2: v2, ...}
RECURSIVE DictOf(_)
DictOf(ps) ==
    IF ps = <<>> THEN EmptyDict
    ELSE SetItem(DictOf(SubSeq(ps, 1, Len(ps) - 1)), ps[Len(ps)][1], ps[Len(ps)][2])

(***************************************************************************)
(* json.loads, on the character level.                                     *)
(***************************************************************************)
QUOTE == "\""
BACKSLASH == "\\"
Whitespace == {" "}
DigitChars == <<"0", "1", "2", "3", "4", "5", "6", "7", "8", "9">>
IsDigit(c) == \E d \in 1..10 : DigitChars[d] = c
DigitValue(c) == (CHOOSE d \in 1..10 : DigitChars[d] = c) - 1

\* the outcome of a scan: the value and the position after it, or a
\* JSONDecodeError
ParseOk(v, p) == [ok |-> TRUE, val |-> v, pos |-> p]
ParseFail == [ok |-> FALSE, val |-> PyNone, pos |-> 0]

RECURSIVE SkipWs(_, _)
SkipWs(s, i) ==
    IF i <= Len(s) /\ s[i] \in Whitespace THEN SkipWs(s, i + 1) ELSE i

\* i is the position after the opening quote
RECURSIVE ScanString(_, _, _)
ScanString(s, i, acc) ==
    IF i > Len(s) THEN ParseFail
    ELSE IF s[i] = QUOTE THEN ParseOk(PyStr(acc), i + 1)
    ELSE IF s[i] = BACKSLASH
         THEN IF i + 1 <= Len(s) /\ s[i + 1] \in {QUOTE, BACKSLASH}
              THEN ScanString(s, i + 2, Append(acc, s[i + 1]))
              ELSE ParseFail
    ELSE ScanString(s, i + 1, Append(acc, s[i]))

\* the digits from position i on: <<their value, their count>>
RECURSIVE ScanDigits(_, _, _, _)
ScanDigits(s, i, n, count) ==
    IF i <= Len(s) /\ IsDigit(s[i])
    THEN ScanDigits(s, i + 1, 10 * n + DigitValue(s[i]), count + 1)
    ELSE <<n, count>>

\* int part, then an optional "." and fraction; the value in hundredths
\* (fraction digits after the second are dropped)
ScanNumber(s, i) ==
    LET int == ScanDigits(s, i, 0, 0)
        j == i + int[2]
        intPart == IF s[i] = "0" THEN ParseOk(PyNum(0), i + 1)
                   ELSE ParseOk(PyNum(100 * int[1]), j)
        p == intPart.pos
    IN  IF p <= Len(s) /\ s[p] = "."
        THEN LET frac == ScanDigits(s, p + 1, 0, 0)
                 d1 == IF frac[2] >= 1 THEN DigitValue(s[p + 1]) ELSE 0
                 d2 == IF frac[2] >= 2 THEN DigitValue(s[p + 2]) ELSE 0
             IN  IF frac[2] = 0 THEN ParseFail
                 ELSE ParseOk(PyNum(intPart.val.cents + 10 * d1 + d2), p + 1 + frac[2])
        ELSE intPart

RECURSIVE ParseValue(_, _)
RECURSIVE ArrayItems(_, _, _)
RECURSIVE ObjectPairs(_, _, _)

\* i is the position of an element; acc the elements before it
ArrayItems(s, i, acc) ==
    LET r == ParseValue(s, i)
        k == SkipWs(s, r.pos)
    IN  IF ~r.ok \/ k > Len(s) THEN ParseFail
        ELSE IF s[k] = "," THEN ArrayItems(s, k + 1, Append(acc, r.val))
        ELSE IF s[k] = "]" THEN ParseOk(PyList(Append(acc, r.val)), k + 1)
        ELSE ParseFail

\* i is the position of a member (after "{" or ","); d the members before
ObjectPairs(s, i, d) ==
    LET j == SkipWs(s, i)
        key == IF j <= Len(s) /\ s[j] = QUOTE THEN ScanString(s, j + 1, <<>>)
               ELSE ParseFail
        c == SkipWs(s, key.pos)
        r == IF key.ok /\ c <= Len(s) /\ s[c] = ":" THEN ParseValue(s, c + 1)
             ELSE ParseFail
        k == SkipWs(s, r.pos)
    IN  IF ~r.ok \/ k > Len(s) THEN ParseFail
        ELSE IF s[k] = "," THEN ObjectPairs(s, k + 1, SetItem(d, key.val.chars, r.val))
        ELSE IF s[k] = "}" THEN ParseOk(SetItem(d, key.val.chars, r.val), k + 1)
        ELSE ParseFail

ParseValue(s, i) ==
    LET j == SkipWs(s, i)
    IN  IF j > Len(s) THEN ParseFail
        ELSE IF s[j] = QUOTE THEN ScanString(s, j + 1, <<>>)
        ELSE IF s[j] = "{"
             THEN LET k == SkipWs(s, j + 1)
                  IN  IF k <= Len(s) /\ s[k] = "}" THEN ParseOk(EmptyDict, k + 1)
                      ELSE ObjectPairs(s, j + 1, EmptyDict)
        ELSE IF s[j] = "["
             THEN LET k == SkipWs(s, j + 1)
                  IN  IF k <= Len(s) /\ s[k] = "]" THEN ParseOk(PyList(<<>>), k + 1)
                      ELSE ArrayItems(s, j + 1, <<>>)
        ELSE IF s[j] = "null" THEN ParseOk(PyNone, j + 1)
        ELSE IF s[j] = "true" THEN ParseOk(PyBool(TRUE), j + 1)
        ELSE IF s[j] = "false" THEN ParseOk(PyBool(FALSE), j + 1)
        ELSE IF IsDigit(s[j]) THEN ScanNumber(s, j)
        ELSE ParseFail

\* json.loads(s): one value, then nothing but whitespace; .ok is FALSE
\* where json.loads raises JSONDecodeError
json_loads(s) ==
    LET r == ParseValue(s, 1)
    IN  IF r.ok /\ SkipWs(s, r.pos) = Len(s) + 1 THEN r ELSE ParseFail

(***************************************************************************)
(* json.dumps (the indentation whitespace of indent=2 is left out).        *)
(***************************************************************************)
RECURSIVE DigitsOf(_)
DigitsOf(n) ==
    IF n < 10 THEN <<DigitChars[n + 1]>>
    ELSE Append(DigitsOf(n \div 10), DigitChars[(n % 10) + 1])

NumberRepr(c) ==
    LET f == c % 100
    IN  DigitsOf(c \div 100)
        \o (IF f = 0 THEN <<>>
            ELSE IF f % 10 = 0 THEN <<".", DigitChars[(f \div 10) + 1]>>
            ELSE <<".", DigitChars[(f \div 10) + 1], DigitChars[(f % 10) + 1]>>)

RECURSIVE Escape(_)
Escape(cs) ==
    IF cs = <<>> THEN <<>>
    ELSE (IF Head(cs) \in {QUOTE, BACKSLASH} THEN <<BACKSLASH, Head(cs)>>
          ELSE <<Head(cs)>>) \o Escape(Tail(cs))

StringRepr(cs) == <<QUOTE>> \o Escape(cs) \o <<QUOTE>>

RECURSIVE json_dumps(_)
RECURSIVE DumpElems(_)
RECURSIVE DumpPairs(_)
DumpElems(xs) ==
    IF xs = <<>> THEN <<>>
    ELSE json_dumps(Head(xs))
         \o (IF Len(xs) > 1 THEN <<",">> ELSE <<>>) \o DumpElems(Tail(xs))
DumpPairs(ps) ==
    IF ps = <<>> THEN <<>>
    ELSE StringRepr(Head(ps).k) \o <<":">> \o json_dumps(Head(ps).v)
         \o (IF Len(ps) > 1 THEN <<",">> ELSE <<>>) \o DumpPairs(Tail(ps))
json_dumps(v) ==
    IF v.t = "None" THEN <<"null">>
    ELSE IF v.t = "bool" THEN (IF v.b THEN <<"true">> ELSE <<"false">>)
    ELSE IF v.t = "number" THEN NumberRepr(v.cents)
    ELSE IF v.t = "str" THEN StringRepr(v.chars)
    ELSE IF v.t = "list" THEN <<"[">> \o DumpElems(v.elems) \o <<"]">>
    ELSE <<"{">> \o DumpPairs(v.pairs) \o <<"}">>

(***************************************************************************)
(* The LangGraph nodes.                                                    *)
(***************************************************************************)
K_user_question == Key("user_question")
K_cost_data == Key("cost_data")
K_monthly_cost_usd == Key("monthly_cost_usd")
K_anomaly_detected == Key("anomaly_detected")
K_optimizations == Key("optimizations")
K_raw_output == Key("raw_output")
K_timestamp == Key("timestamp")
K_question == Key("question")

DefaultQuestion == PyStr(<<"Explore my Azure costs">>)

CostObservation(cents) ==
    DictOf(<< <<Key("resource"), PyStr(<<"Azure Storage Account">>)>>,
              <<K_monthly_cost_usd, PyNum(cents)>>,
              <<Key("currency"), PyStr(<<"USD">>)>> >>)

\* a cost source whose figure depends on the request
fetch_cost_data_per_question(st) ==
    SetItem(st, K_cost_data,
            CostObservation(IF Get(st, K_user_question, DefaultQuestion) = DefaultQuestion
                            THEN StubMonthlyCostCents
                            ELSE 3 * StubMonthlyCostCents))

fetch_cost_data(st) ==
    SetItem(st, K_cost_data, CostObservation(StubMonthlyCostCents))

\* state["cost_data"]["monthly_cost_usd"] can be read and compared with 5
CanDetect(st) ==
    /\ HasKey(st, K_cost_data)
    /\ GetItem(st, K_cost_data).t = "dict"
    /\ HasKey(GetItem(st, K_cost_data), K_monthly_cost_usd)
    /\ GetItem(GetItem(st, K_cost_data), K_monthly_cost_usd).t = "number"

\* the comparison written >= instead of >
detect_anomaly_inclusive(st) ==
    LET cost == GetItem(GetItem(st, K_cost_data), K_monthly_cost_usd)
    IN  SetItem(st, K_anomaly_detected, PyBool(cost.cents >= AnomalyThresholdCents))

detect_anomaly(st) ==
    LET cost == GetItem(GetItem(st, K_cost_data), K_monthly_cost_usd)
    IN  SetItem(st, K_anomaly_detected, PyBool(cost.cents > AnomalyThresholdCents))

\* the values the f-string puts into the prompt (its fixed text is left out)
Prompt(st) ==
    [user_question |-> Get(st, K_user_question, DefaultQuestion),
     cost_data |-> GetItem(st, K_cost_data)]

\* json.loads without the except clause's fallback
ParsedOrRaw_no_fallback(raw_text) == json_loads(raw_text).val

\* the try/except around json.loads
ParsedOrRaw(raw_text) ==
    LET r == json_loads(raw_text)
    IN  IF r.ok THEN r.val
        ELSE DictOf(<< <<K_raw_output, PyStr(raw_text)>> >>)

\* a node that returns only what it computed, dropping the rest of the state
simulate_optimizations_partial(st, raw_text) ==
    DictOf(<< <<K_cost_data, Get(st, K_cost_data, PyNone)>>,
              <<K_optimizations, ParsedOrRaw(raw_text)>> >>)

\* simulate_optimizations once llm.invoke has returned raw_text
simulate_optimizations(st, raw_text) ==
    SetItem(st, K_optimizations, ParsedOrRaw(raw_text))

\* datetime.datetime.utcnow().isoformat(): instants are numbered, and the
\* text of an instant is its number
isoformat(instant) == DigitsOf(instant)

\* a report that looks the advice up under another key
generate_report_wrong_key(st, instant) ==
    DictOf(<< <<K_timestamp, PyStr(isoformat(instant))>>,
              <<K_cost_data, Get(st, K_cost_data, PyNone)>>,
              <<K_anomaly_detected, Get(st, K_anomaly_detected, PyNone)>>,
              <<K_optimizations, Get(st, Key("optimization"), PyNone)>> >>)

generate_report(st, instant) ==
    DictOf(<< <<K_timestamp, PyStr(isoformat(instant))>>,
              <<K_cost_data, Get(st, K_cost_data, PyNone)>>,
              <<K_anomaly_detected, Get(st, K_anomaly_detected, PyNone)>>,
              <<K_optimizations, Get(st, K_optimizations, PyNone)>> >>)

blob_name(instant) == <<"agent-report-">> \o isoformat(instant) \o <<".json">>

\* upload_blob(name, data, overwrite=True) on the container's blobs
upload_blob(blobs, name, data) ==
    {b \in blobs : b.name # name} \cup {[name |-> name, data |-> data]}

\* the graph main builds: set_entry_point and the add_edge calls; a node
\* with no outgoing edge ends the run
EntryPoint == "fetch_cost"

\* the edge out of fetch_cost drawn to the wrong node
Edge_skipping_detect(node) ==
    IF node = "fetch_cost" THEN "optimize"
    ELSE IF node = "detect_anomaly" THEN "optimize"
    ELSE IF node = "optimize" THEN "report"
    ELSE "END"

Edge(node) ==
    IF node = "fetch_cost" THEN "detect_anomaly"
    ELSE IF node = "detect_anomaly" THEN "optimize"
    ELSE IF node = "optimize" THEN "report"
    ELSE "END"

(***************************************************************************)
(* State.                                                                  *)
(***************************************************************************)
VARIABLES
    now,        \* the UTC clock
    pc,         \* per request: where main is
    params,     \* per request: req.params
    state,      \* per request: the dict the graph threads through its nodes
    result,     \* per request: what app.invoke returned
    response,   \* per request: what main returned to the caller
    raised,     \* per request: the exception that left main, if any
    llm_calls,  \* per request: the llm.invoke calls made, with their outcome
    uploads,    \* per request: the upload_blob calls made, with their outcome
    container,  \* the blobs of the container "agent-state"
    trace       \* per request: the steps run so far

vars == <<now, pc, params, state, result, response, raised, llm_calls, uploads,
          container, trace>>

Requests == 1..NumRequests

NoResponse == [status |-> "none", body |-> <<>>, mimetype |-> ""]

\* what a caller may put in the query string
TheQuestion == PyStr(<<"Why is storage costly?">>)
Questions == {TheQuestion}
ParamsChoices == {EmptyDict} \cup {DictOf(<< <<K_question, q>> >>) : q \in Questions}

Init ==
    /\ now = 0
    /\ pc = [r \in Requests |-> "pending"]
    /\ params = [r \in Requests |-> EmptyDict]
    /\ state = [r \in Requests |-> EmptyDict]
    /\ result = [r \in Requests |-> PyNone]
    /\ response = [r \in Requests |-> NoResponse]
    /\ raised = [r \in Requests |-> "none"]
    /\ llm_calls = [r \in Requests |-> <<>>]
    /\ uploads = [r \in Requests |-> <<>>]
    /\ container = {}
    /\ trace = [r \in Requests |-> <<>>]

(***************************************************************************)
(* Actions.                                                                *)
(***************************************************************************)
Tick ==
    /\ now < MaxTime
    /\ now' = now + 1
    /\ UNCHANGED <<pc, params, state, result, response, raised, llm_calls,
                   uploads, container, trace>>

\* after a node: follow its edge, or leave app.invoke at the end
After(node) == IF Edge(node) = "END" THEN "save" ELSE Edge(node)

\* main up to app.invoke: read the question, build the graph, enter it
main_entry(r, p) ==
    /\ pc[r] = "pending"
    /\ params' = [params EXCEPT ![r] = p]
    /\ state' = [state EXCEPT ![r] =
                    DictOf(<< <<K_user_question, Get(p, K_question, DefaultQuestion)>> >>)]
    /\ pc' = [pc EXCEPT ![r] = EntryPoint]
    /\ UNCHANGED <<now, result, response, raised, llm_calls, uploads, container, trace>>

fetch_cost_node(r) ==
    /\ pc[r] = "fetch_cost"
    /\ state' = [state EXCEPT ![r] = fetch_cost_data(state[r])]
    /\ trace' = [trace EXCEPT ![r] = Append(@, "fetch_cost_data")]
    /\ pc' = [pc EXCEPT ![r] = After("fetch_cost")]
    /\ UNCHANGED <<now, params, result, response, raised, llm_calls, uploads, container>>

\* state["cost_data"]["monthly_cost_usd"] raises where it cannot be read
detect_anomaly_node(r) ==
    /\ pc[r] = "detect_anomaly"
    /\ trace' = [trace EXCEPT ![r] = Append(@, "detect_anomaly")]
    /\ IF CanDetect(state[r])
       THEN /\ state' = [state EXCEPT ![r] = detect_anomaly(state[r])]
            /\ pc' = [pc EXCEPT ![r] = After("detect_anomaly")]
            /\ UNCHANGED raised
       ELSE /\ pc' = [pc EXCEPT ![r] = "failed"]
            /\ raised' = [raised EXCEPT ![r] = "KeyError"]
            /\ UNCHANGED state
    /\ UNCHANGED <<now, params, result, response, llm_calls, uploads, container>>

\* llm.invoke returns some text raw_text of replies
optimize_node(r, replies) ==
    /\ pc[r] = "optimize"
    /\ trace' = [trace EXCEPT ![r] = Append(@, "simulate_optimizations")]
    /\ IF HasKey(state[r], K_cost_data)
       THEN \E raw_text \in replies :
            /\ llm_calls' = [llm_calls EXCEPT ![r] =
                                Append(@, [prompt |-> Prompt(state[r]),
                                           returned |-> TRUE, reply |-> raw_text])]
            /\ state' = [state EXCEPT ![r] = simulate_optimizations(state[r], raw_text)]
            /\ pc' = [pc EXCEPT ![r] = After("optimize")]
            /\ UNCHANGED raised
       ELSE /\ pc' = [pc EXCEPT ![r] = "failed"]
            /\ raised' = [raised EXCEPT ![r] = "KeyError"]
            /\ UNCHANGED <<state, llm_calls>>
    /\ UNCHANGED <<now, params, result, response, uploads, container>>

\* an except clause that absorbs the failed call and carries on
optimize_node_llm_error_absorbed(r) ==
    /\ pc[r] = "optimize"
    /\ HasKey(state[r], K_cost_data)
    /\ trace' = [trace EXCEPT ![r] = Append(@, "simulate_optimizations")]
    /\ llm_calls' = [llm_calls EXCEPT ![r] =
                        Append(@, [prompt |-> Prompt(state[r]),
                                   returned |-> FALSE, reply |-> <<>>])]
    /\ state' = [state EXCEPT ![r] = simulate_optimizations(state[r], <<>>)]
    /\ pc' = [pc EXCEPT ![r] = After("optimize")]
    /\ UNCHANGED <<now, params, result, response, raised, uploads, container>>

\* llm.invoke raises (auth, network, quota): nothing catches it
optimize_node_llm_error(r) ==
    /\ pc[r] = "optimize"
    /\ HasKey(state[r], K_cost_data)
    /\ trace' = [trace EXCEPT ![r] = Append(@, "simulate_optimizations")]
    /\ llm_calls' = [llm_calls EXCEPT ![r] =
                        Append(@, [prompt |-> Prompt(state[r]),
                                   returned |-> FALSE, reply |-> <<>>])]
    /\ pc' = [pc EXCEPT ![r] = "failed"]
    /\ raised' = [raised EXCEPT ![r] = "llm_error"]
    /\ UNCHANGED <<now, params, state, result, response, uploads, container>>

\* a report built from one dict that every request shares
report_node_shared_state(r) ==
    /\ pc[r] = "report"
    /\ trace' = [trace EXCEPT ![r] = Append(@, "generate_report")]
    /\ result' = [result EXCEPT ![r] = generate_report(state[1], now)]
    /\ pc' = [pc EXCEPT ![r] = After("report")]
    /\ UNCHANGED <<now, params, state, response, raised, llm_calls, uploads, container>>

\* the last node: what it returns is what app.invoke returns
report_node(r) ==
    /\ pc[r] = "report"
    /\ trace' = [trace EXCEPT ![r] = Append(@, "generate_report")]
    /\ result' = [result EXCEPT ![r] = generate_report(state[r], now)]
    /\ pc' = [pc EXCEPT ![r] = After("report")]
    /\ UNCHANGED <<now, params, state, response, raised, llm_calls, uploads, container>>

\* save_state_to_blob(result), the upload succeeding
save_state_to_blob(r) ==
    /\ pc[r] = "save"
    /\ trace' = [trace EXCEPT ![r] = Append(@, "save_state_to_blob")]
    /\ LET name == blob_name(now)
           data == json_dumps(result[r])
       IN  /\ uploads' = [uploads EXCEPT ![r] =
                             Append(@, [name |-> name, data |-> data, ok |-> TRUE])]
           /\ container' = upload_blob(container, name, data)
    /\ pc' = [pc EXCEPT ![r] = "respond"]
    /\ UNCHANGED <<now, params, state, result, response, raised, llm_calls>>

\* an except clause that logs the failed upload and returns the report
save_state_to_blob_error_swallowed(r) ==
    /\ pc[r] = "save"
    /\ trace' = [trace EXCEPT ![r] = Append(@, "save_state_to_blob")]
    /\ uploads' = [uploads EXCEPT ![r] =
                      Append(@, [name |-> blob_name(now),
                                 data |-> json_dumps(result[r]), ok |-> FALSE])]
    /\ pc' = [pc EXCEPT ![r] = "respond"]
    /\ UNCHANGED <<now, params, state, result, response, raised, llm_calls, container>>

\* save_state_to_blob(result), upload_blob raising: nothing catches it
save_state_to_blob_error(r) ==
    /\ pc[r] = "save"
    /\ trace' = [trace EXCEPT ![r] = Append(@, "save_state_to_blob")]
    /\ uploads' = [uploads EXCEPT ![r] =
                      Append(@, [name |-> blob_name(now),
                                 data |-> json_dumps(result[r]), ok |-> FALSE])]
    /\ pc' = [pc EXCEPT ![r] = "failed"]
    /\ raised' = [raised EXCEPT ![r] = "storage_error"]
    /\ UNCHANGED <<now, params, state, result, response, llm_calls, container>>

\* a response that builds the report afresh instead of returning result
respond_rebuilt(r) ==
    /\ pc[r] = "respond"
    /\ trace' = [trace EXCEPT ![r] = Append(@, "response")]
    /\ response' = [response EXCEPT ![r] =
                       [status |-> "ok", body |-> json_dumps(generate_report(state[r], now)),
                        mimetype |-> "application/json"]]
    /\ pc' = [pc EXCEPT ![r] = "done"]
    /\ UNCHANGED <<now, params, state, result, raised, llm_calls, uploads, container>>

\* return func.HttpResponse(json.dumps(result, indent=2), ...)
respond(r) ==
    /\ pc[r] = "respond"
    /\ trace' = [trace EXCEPT ![r] = Append(@, "response")]
    /\ response' = [response EXCEPT ![r] =
                       [status |-> "ok", body |-> json_dumps(result[r]),
                        mimetype |-> "application/json"]]
    /\ pc' = [pc EXCEPT ![r] = "done"]
    /\ UNCHANGED <<now, params, state, result, raised, llm_calls, uploads, container>>

(***************************************************************************)
(* The replies of the language model.                                      *)
(***************************************************************************)
Q == QUOTE
FourKeyReply ==
    <<"{", Q, "resource", Q, ":", Q, "X", Q, ",",
      Q, "recommended_change", Q, ":", Q, "Y", Q, ",",
      Q, "estimated_monthly_savings", Q, ":", "1", ".", "2", ",",
      Q, "risk_level", Q, ":", Q, "low", Q, "}">>
NonJsonReply == <<"I", " ", "cannot", " ", "help">>
ModelReplies == {FourKeyReply, NonJsonReply}

\* every text of at most MaxReplyLen characters over ReplyChars, and some
\* longer ones
ReplyChars == {"{", "}", "[", "]", ":", ",", Q, "help", "1"}
ShortReplies == UNION {[1..n -> ReplyChars] : n \in 0..MaxReplyLen}
OtherKeysReply == <<"{", Q, "advice", Q, ":", Q, "resize", Q, "}">>
RawOutputKeyReply == <<"{", Q, "raw_output", Q, ":", Q, "help", Q, "}">>
EscapedReply == <<Q, "say", " ", BACKSLASH, Q, "help", BACKSLASH, Q, Q>>
BadEscapeReply == <<Q, "say", BACKSLASH, "help", Q>>
AllReplies ==
    ShortReplies \cup ModelReplies
    \cup {OtherKeysReply, RawOutputKeyReply, EscapedReply, BadEscapeReply}

(***************************************************************************)
(* Spec: NumRequests requests handled concurrently, their steps            *)
(* interleaved in any order.  Request 1 comes with any query string, the   *)
(* other requests carry a question.                                        *)
(***************************************************************************)
ParamsOf(r) ==
    IF r = 1 THEN ParamsChoices
    ELSE {DictOf(<< <<K_question, TheQuestion>> >>)}

Next ==
    \/ Tick
    \/ \E r \in Requests : \E p \in ParamsOf(r) : main_entry(r, p)
    \/ \E r \in Requests : fetch_cost_node(r)
    \/ \E r \in Requests : detect_anomaly_node(r)
    \/ \E r \in Requests : optimize_node(r, ModelReplies)
    \/ \E r \in Requests : optimize_node_llm_error(r)
    \/ \E r \in Requests : report_node(r)
    \/ \E r \in Requests : save_state_to_blob(r)
    \/ \E r \in Requests : save_state_to_blob_error(r)
    \/ \E r \in Requests : respond(r)

Spec == Init /\ [][Next]_vars

(***************************************************************************)
(* SpecReply: one request, with any query string and any reply of the      *)
(* language model.                                                         *)
(***************************************************************************)
NextReply ==
    \/ Tick
    \/ \E p \in ParamsChoices : main_entry(1, p)
    \/ fetch_cost_node(1)
    \/ detect_anomaly_node(1)
    \/ optimize_node(1, AllReplies)
    \/ optimize_node_llm_error(1)
    \/ report_node(1)
    \/ save_state_to_blob(1)
    \/ save_state_to_blob_error(1)
    \/ respond(1)

SpecReply == Init /\ [][NextReply]_vars

(***************************************************************************)
(* SpecDetect: detect_anomaly applied to a state with any cost figure up   *)
(* to MaxCostCents, or with no cost_data at all.                           *)
(***************************************************************************)
DetectInputs ==
    {DictOf(<< <<K_user_question, DefaultQuestion>>,
               <<K_cost_data, CostObservation(c)>> >>) : c \in 0..MaxCostCents}
    \cup {DictOf(<< <<K_user_question, DefaultQuestion>> >>)}

InitDetect ==
    /\ now = 0
    /\ pc = [r \in Requests |-> IF r = 1 THEN "detect_anomaly" ELSE "pending"]
    /\ params = [r \in Requests |-> EmptyDict]
    /\ \E st \in DetectInputs : state = [r \in Requests |-> IF r = 1 THEN st ELSE EmptyDict]
    /\ result = [r \in Requests |-> PyNone]
    /\ response = [r \in Requests |-> NoResponse]
    /\ raised = [r \in Requests |-> "none"]
    /\ llm_calls = [r \in Requests |-> <<>>]
    /\ uploads = [r \in Requests |-> <<>>]
    /\ container = {}
    /\ trace = [r \in Requests |-> <<>>]

NextDetect == detect_anomaly_node(1)

SpecDetect == InitDetect /\ [][NextDetect]_vars

(***************************************************************************)
(* Properties.                                                             *)
(***************************************************************************)
FullOrder ==
    <<"fetch_cost_data", "detect_anomaly", "simulate_optimizations",
      "generate_report", "save_state_to_blob", "response">>
IsPrefix(s, t) == Len(s) <= Len(t) /\ s = SubSeq(t, 1, Len(s))
ReportKeys == {K_timestamp, K_cost_data, K_anomaly_detected, K_optimizations}
StructuredKeys ==
    {Key("resource"), Key("recommended_change"),
     Key("estimated_monthly_savings"), Key("risk_level")}
IsStructured(v) == v.t = "dict" /\ Keys(v) = StructuredKeys
IsFallback(v) ==
    v.t = "dict" /\ Keys(v) = {K_raw_output} /\ GetItem(v, K_raw_output).t = "str"
Responded(r) == response[r].status = "ok"
ReportBuilt(r) == result[r] # PyNone
UploadFailed(r) == \E i \in 1..Len(uploads[r]) : ~uploads[r][i].ok
\* the report a caller reads out of the response body
Returned(r) == json_loads(response[r].body).val

\* C1: every request that returns a response ran fetch_cost_data,
\* detect_anomaly, simulate_optimizations, generate_report,
\* save_state_to_blob and the response exactly once each, in this order;
\* and at no point of any request has a step been skipped, repeated or
\* reordered (the steps run so far are a prefix of that order).
C1_FixedOrder ==
    \A r \in Requests :
        /\ IsPrefix(trace[r], FullOrder)
        /\ Responded(r) => trace[r] = FullOrder

C1_Witness == \E r \in Requests : Responded(r) /\ pc[r] = "done" /\ Len(trace[r]) = 6

\* C2: once the upload of a request has failed, that request has aborted
\* with the storage error, no response was or will be returned for it,
\* the upload was attempted exactly once, and the report had been fully
\* built (it is what the failed upload carried).
C2_UploadFailureAborts ==
    \A r \in Requests :
        UploadFailed(r) =>
            /\ pc[r] = "failed"
            /\ raised[r] = "storage_error"
            /\ response[r] = NoResponse
            /\ Len(uploads[r]) = 1
            /\ ReportBuilt(r)
            /\ Keys(result[r]) = ReportKeys
            /\ GetItem(result[r], K_optimizations) # PyNone
            /\ uploads[r][1].data = json_dumps(result[r])

C2_Witness ==
    \E r \in Requests :
        /\ UploadFailed(r)
        /\ HasKey(state[r], K_optimizations)
        /\ ~Responded(r)

\* C3: once the language-model call of a request has failed, that request
\* has aborted with that error: the call was made exactly once,
\* optimizations was never written, no report was built, no upload was
\* attempted and no response was returned.
C3_LlmFailureAborts ==
    \A r \in Requests :
        (\E i \in 1..Len(llm_calls[r]) : ~llm_calls[r][i].returned) =>
            /\ pc[r] = "failed"
            /\ raised[r] = "llm_error"
            /\ Len(llm_calls[r]) = 1
            /\ ~HasKey(state[r], K_optimizations)
            /\ ~ReportBuilt(r)
            /\ uploads[r] = <<>>
            /\ response[r] = NoResponse

C3_Witness ==
    \E r \in Requests :
        /\ Len(llm_calls[r]) = 1
        /\ ~llm_calls[r][1].returned
        /\ raised[r] = "llm_error"
        /\ HasKey(state[r], K_anomaly_detected)

C5_CostOf(st) == GetItem(GetItem(st, K_cost_data), K_monthly_cost_usd).cents

\* C5: for a state whose cost_data.monthly_cost_usd is present,
\* detect_anomaly sets anomaly_detected to true exactly when the cost is
\* strictly greater than 5 (500 hundredths): a cost of exactly 5 and every
\* cost below 5 give false.
C5_StrictThreshold ==
    [][(pc[1] = "detect_anomaly" /\ CanDetect(state[1])) =>
           /\ pc'[1] = "optimize"
           /\ HasKey(state'[1], K_anomaly_detected)
           /\ C5_CostOf(state[1]) > 500
                  => GetItem(state'[1], K_anomaly_detected) = PyBool(TRUE)
           /\ C5_CostOf(state[1]) <= 500
                  => GetItem(state'[1], K_anomaly_detected) = PyBool(FALSE)]_vars

C5_Witness ==
    /\ pc[1] = "optimize"
    /\ C5_CostOf(state[1]) = 500
    /\ GetItem(state[1], K_anomaly_detected) = PyBool(FALSE)

\* C6 as claimed: in every report the optimizations field is either an
\* object with exactly the keys resource, recommended_change,
\* estimated_monthly_savings and risk_level, or {raw_output: text}.
C6_TwoShapesOnly ==
    \A r \in Requests :
        ReportBuilt(r) =>
            \/ IsStructured(GetItem(result[r], K_optimizations))
            \/ IsFallback(GetItem(result[r], K_optimizations))

\* C6 as amended: in every report the optimizations field is either
\* {raw_output: <the reply text>}, when the reply is not valid JSON, or the
\* JSON value the reply parses to, whatever its shape: the four-key object
\* when the reply is one, and otherwise any other JSON value (a list, a
\* string, a number, true, false, null, an object with other keys).
C6_ParsedValueOrFallback ==
    \A r \in Requests :
        ReportBuilt(r) =>
            LET opt == GetItem(result[r], K_optimizations)
                parsed == json_loads(llm_calls[r][1].reply)
            IN  /\ Len(llm_calls[r]) = 1
                /\ parsed.ok =>
                       /\ opt = parsed.val
                       /\ opt.t \in {"dict", "list", "str", "number", "bool", "None"}
                /\ ~parsed.ok =>
                       /\ IsFallback(opt)
                       /\ GetItem(opt, K_raw_output).chars = llm_calls[r][1].reply
                /\ llm_calls[r][1].reply = FourKeyReply => IsStructured(opt)

C6_Witness ==
    \E r \in Requests :
        /\ Responded(r)
        /\ GetItem(result[r], K_optimizations).t = "list"
        /\ GetItem(Returned(r), K_optimizations).t = "list"

\* the step adds key to the request's state and changes nothing else in it
C7_Adds(r, key) ==
    /\ key \notin Keys(state[r])
    /\ Keys(state'[r]) = Keys(state[r]) \cup {key}
    /\ \A k \in Keys(state[r]) : GetItem(state'[r], k) = GetItem(state[r], k)

\* C7: through the first three nodes the key set of a request's state only
\* grows: fetch_cost_data adds exactly cost_data, detect_anomaly exactly
\* anomaly_detected, simulate_optimizations exactly optimizations; every
\* key that was there (user_question, the earlier nodes' keys) keeps its
\* value; the keys a node reads (cost_data for detect_anomaly, cost_data
\* and user_question for simulate_optimizations) were written before it
\* ran; a node that raises and the later steps leave the state as it was.
C7_StageWritesOwnKey ==
    [][\A r \in Requests :
          /\ (pc[r] = "pending" /\ pc'[r] # pc[r])
                => Keys(state'[r]) = {K_user_question}
          /\ (pc[r] = "fetch_cost" /\ pc'[r] # pc[r])
                => C7_Adds(r, K_cost_data)
          /\ (pc[r] = "detect_anomaly" /\ pc'[r] # pc[r])
                => /\ K_cost_data \in Keys(state[r])
                   /\ IF pc'[r] = "failed" THEN state'[r] = state[r]
                      ELSE C7_Adds(r, K_anomaly_detected)
          /\ (pc[r] = "optimize" /\ pc'[r] # pc[r])
                => /\ {K_cost_data, K_user_question} \subseteq Keys(state[r])
                   /\ IF pc'[r] = "failed" THEN state'[r] = state[r]
                      ELSE C7_Adds(r, K_optimizations)
          /\ pc[r] \in {"report", "save", "respond", "done", "failed"}
                => state'[r] = state[r]]_vars

C7_Witness ==
    \E r \in Requests :
        /\ pc[r] = "report"
        /\ Keys(state[r]) =
               {K_user_question, K_cost_data, K_anomaly_detected, K_optimizations}
        /\ GetItem(state[r], K_user_question) = TheQuestion

\* what a request holds is computed from its own inputs
C8_OwnValues ==
    \A r \in Requests :
        /\ pc[r] # "pending"
              => GetItem(state[r], K_user_question)
                     = Get(params[r], K_question, DefaultQuestion)
        /\ ReportBuilt(r) =>
              /\ Len(llm_calls[r]) = 1
              /\ llm_calls[r][1].prompt.user_question
                     = Get(params[r], K_question, DefaultQuestion)
              /\ llm_calls[r][1].prompt.cost_data = GetItem(state[r], K_cost_data)
              /\ LET parsed == json_loads(llm_calls[r][1].reply)
                 IN  GetItem(state[r], K_optimizations)
                         = IF parsed.ok THEN parsed.val
                           ELSE PyDict(<<[k |-> K_raw_output,
                                          v |-> PyStr(llm_calls[r][1].reply)]>>)
              /\ \A k \in ReportKeys \ {K_timestamp} :
                     GetItem(result[r], k) = GetItem(state[r], k)
        /\ Responded(r) => response[r].body = json_dumps(result[r])

\* a step writes one request's state, report and response: its own
C8_OwnWrites ==
    \A r \in Requests :
        (state'[r] # state[r] \/ result'[r] # result[r] \/ response'[r] # response[r])
            => /\ pc'[r] # pc[r]
               /\ \A q \in Requests \ {r} :
                      /\ pc'[q] = pc[q]
                      /\ state'[q] = state[q]
                      /\ result'[q] = result[q]
                      /\ response'[q] = response[q]

\* C8: with the requests' steps interleaved in any order, a step writes the
\* state, report and response of the one request that takes it, and the
\* report of a request is built from that request's own values: its prompt
\* carried its own question and cost_data, its optimizations come from the
\* reply to its own call, and its report and response carry its own
\* cost_data, anomaly_detected and optimizations.
C8_Isolation == [](C8_OwnValues) /\ [][C8_OwnWrites]_vars

\* request 2 built its report before request 1 did, request 1 has returned
\* first, and the two reports carry different advice
C8_Witness ==
    /\ NumRequests >= 2
    /\ pc[1] = "done"
    /\ pc[2] = "respond"
    /\ GetItem(result[2], K_timestamp).chars = <<"0">>
    /\ GetItem(result[1], K_timestamp).chars # <<"0">>
    /\ GetItem(result[1], K_optimizations) # GetItem(result[2], K_optimizations)
    /\ llm_calls[1][1].prompt.user_question # llm_calls[2][1].prompt.user_question

\* C9: any two runs of the pipeline return reports with the same four keys
\* whose cost_data is {resource: "Azure Storage Account",
\* monthly_cost_usd: 2.35, currency: "USD"} in both and whose
\* anomaly_detected is the same in both, whatever the questions and the
\* replies; only timestamp and optimizations can differ.
C9_SameCostAndAnomaly ==
    \A r1 \in Requests :
        Responded(r1) =>
            LET report == result[r1]
            IN  /\ response[r1].body = json_dumps(report)
                /\ Keys(report) = ReportKeys
                /\ GetItem(report, K_cost_data).pairs =
                       <<[k |-> Key("resource"), v |-> PyStr(<<"Azure Storage Account">>)],
                         [k |-> K_monthly_cost_usd, v |-> PyNum(235)],
                         [k |-> Key("currency"), v |-> PyStr(<<"USD">>)]>>
                /\ GetItem(report, K_anomaly_detected).t = "bool"
                /\ \A r2 \in Requests :
                       Responded(r2) =>
                           /\ GetItem(report, K_cost_data) = GetItem(result[r2], K_cost_data)
                           /\ GetItem(report, K_anomaly_detected)
                                  = GetItem(result[r2], K_anomaly_detected)

C9_Witness ==
    \E r1 \in Requests, r2 \in Requests :
        /\ Responded(r1)
        /\ Responded(r2)
        /\ params[r1] # params[r2]
        /\ GetItem(result[r1], K_timestamp) # GetItem(result[r2], K_timestamp)
        /\ GetItem(result[r1], K_optimizations) # GetItem(result[r2], K_optimizations)

\* C10: in every request that returns a response, the one upload made was
\* made before the response and succeeded, and the content uploaded is the
\* response body: both are the report app.invoke returned, with the same
\* timestamp, cost_data, anomaly_detected and optimizations.
C10_UploadedIsReturned ==
    \A r \in Requests :
        Responded(r) =>
            /\ Len(uploads[r]) = 1
            /\ uploads[r][1].ok
            /\ trace[r] = FullOrder
            /\ uploads[r][1].data = response[r].body
            /\ LET returned == Returned(r)
               IN  /\ Keys(returned) = ReportKeys
                   /\ \A k \in ReportKeys : GetItem(returned, k) = GetItem(result[r], k)

\* the clock moved between building the report and uploading it
C10_Witness ==
    \E r \in Requests :
        /\ Responded(r)
        /\ uploads[r][1].name # blob_name(0)
        /\ GetItem(Returned(r), K_timestamp).chars = <<"0">>

====
